---- MODULE Spec2Model ----
(***************************************************************************)
(* ProggyCalc (src/main.py): the calculator state machine of               *)
(* ProgrammerCalculator -- accumulator, stored operand, pending operator,  *)
(* repeat cache, memory register, the triple-clear gesture, the history    *)
(* panel, the clipboard, and the formatting / parsing of values.           *)
(*                                                                         *)
(* Python integers are unbounded: nothing in the source reduces a value    *)
(* modulo 2^64.  The number 64 occurs only in format_value / update_display*)
(* ((1 << 64) + value) and in the two parsers (val > (1 << 63)).  TLC's    *)
(* integers are 32 bits wide, so the word is modelled at a reduced width   *)
(* WordBits (standing for 64) and the float mantissa of true division at   *)
(* MantBits (standing for 53); every formula is written against WordBits,  *)
(* never against a literal.                                                *)
(*                                                                         *)
(* Text (display, history lines, clipboard) is a sequence of one-character *)
(* strings, so that formatting and parsing are computed, not assumed.      *)
(***************************************************************************)
EXTENDS Integers, Sequences, FiniteSets, TLC

(***************************************************************************)
(* Bounds of the model                                                     *)
(***************************************************************************)
\* width of the machine word the source calls 64 (1 << 64, 1 << 63)
WordBits == 8
\* significant bits of a Python float (53 for an IEEE double)
MantBits == 6
\* input events of one run, after the session the run starts from
MaxSteps == 1
\* the clock at start-up, in ticks (time.time() is far from 0, the initial
\* last_clear_time)
StartTime == 3
\* how many ticks the clock may advance during a run
MaxElapsed == 4
\* history entries the panel keeps (50 in the source)
MaxHistory == 1

\* clock ticks per second: the gesture threshold 1.0 s is TicksPerSec ticks
TicksPerSec == 2
\* the number of presses that wipe the memory
ClearPresses == 3

TwoToWord == 2 ^ WordBits
TwoToSign == 2 ^ (WordBits - 1)
\* values the model follows: a handler whose result leaves this range is not
\* taken (the source would go on, with ever larger integers)
MaxAbs == TwoToWord + TwoToSign

(***************************************************************************)
(* None and optional values                                                *)
(***************************************************************************)
None == "None"
\* an optional integer: <<>> is Python's None, <<v>> the integer v
NoInt == <<>>
Some(v) == <<v>>
\* the outcome of an expression that raised
Raised == <<>>

Abs(x) == IF x < 0 THEN -x ELSE x
Min(x, y) == IF x < y THEN x ELSE y
InS64(v) == -TwoToSign <= v /\ v <= TwoToSign - 1
\* reduction modulo 2^64 reinterpreted as two's complement
WrapS64(v) == ((v + TwoToSign) % TwoToWord) - TwoToSign

(***************************************************************************)
(* Python integer arithmetic                                               *)
(***************************************************************************)
RECURSIVE BitLen(_)
BitLen(n) == IF n = 0 THEN 0 ELSE 1 + BitLen(n \div 2)

\* a // b
PyFloorDiv(a, b) == IF b > 0 THEN a \div b ELSE (-a) \div (-b)
\* a % b  (sign of the divisor)
PyMod(a, b) == a - b * PyFloorDiv(a, b)

\* int(x / y) for x >= 0, y > 0: x / y is the exact quotient correctly rounded
\* (ties to even) to MantBits significant bits; int() truncates it.
TruncRoundedQuot(x, y) ==
    LET q == x \div y
        rem == x % y
        L == BitLen(q)
    IN  IF L > MantBits
        THEN LET unit == 2 ^ (L - MantBits)
                 base == q \div unit
                 low == q % unit
                 twice == 2 * (low * y + rem)
                 up == twice > unit * y \/ (twice = unit * y /\ (base % 2) = 1)
             IN  (IF up THEN base + 1 ELSE base) * unit
        ELSE IF L = MantBits
        THEN LET up == 2 * rem > y \/ (2 * rem = y /\ (q % 2) = 1)
             IN  IF up THEN q + 1 ELSE q
        ELSE LET scale == 2 ^ (MantBits - L + 1)
                 up == rem * scale >= (scale - 1) * y
             IN  IF up THEN q + 1 ELSE q

\* int(a / b), b # 0
PyIntTrueDiv(a, b) ==
    LET m == TruncRoundedQuot(Abs(a), Abs(b))
    IN  IF (a < 0) = (b < 0) THEN m ELSE -m

\* a & b, a | b, a ^ b on Python's integers (infinite two's complement)
RECURSIVE BitAnd(_, _)
BitAnd(a, b) ==
    IF a = 0 \/ b = 0 THEN 0
    ELSE IF a = -1 THEN b
    ELSE IF b = -1 THEN a
    ELSE (a % 2) * (b % 2) + 2 * BitAnd(a \div 2, b \div 2)

RECURSIVE BitOr(_, _)
BitOr(a, b) ==
    IF a = 0 THEN b
    ELSE IF b = 0 THEN a
    ELSE IF a = -1 \/ b = -1 THEN -1
    ELSE (IF (a % 2) = 1 \/ (b % 2) = 1 THEN 1 ELSE 0) + 2 * BitOr(a \div 2, b \div 2)

RECURSIVE BitXor(_, _)
BitXor(a, b) ==
    IF a = 0 THEN b
    ELSE IF b = 0 THEN a
    ELSE IF a = -1 THEN -b - 1
    ELSE IF b = -1 THEN -a - 1
    ELSE (((a % 2) + (b % 2)) % 2) + 2 * BitXor(a \div 2, b \div 2)

\* a << b, b >= 0.  Shift counts above ShiftCap are clamped: with a # 0 the
\* clamped and the true result both exceed MaxAbs, with a = 0 both are 0.
ShiftCap == BitLen(MaxAbs)
PyLShift(a, b) == a * (2 ^ Min(b, ShiftCap))
\* a >> b, b >= 0: floor(a / 2^b)
PyRShift(a, b) == a \div (2 ^ Min(b, BitLen(Abs(a)) + 1))

Ops == {"add", "sub", "mul", "div", "mod", "and", "or", "xor", "lshift", "rshift"}

\* Calculate without the guards `if b != 0 else 0`: a zero divisor raises
\* (ZeroDivisionError)
CalculateUnguarded(op, a, b) ==
    CASE op = "add" -> Some(a + b)
      [] op = "sub" -> Some(a - b)
      [] op = "mul" -> Some(a * b)
      [] op = "div" -> IF b = 0 THEN Raised ELSE Some(PyIntTrueDiv(a, b))
      [] op = "mod" -> IF b = 0 THEN Raised ELSE Some(PyMod(a, b))
      [] op = "and" -> Some(BitAnd(a, b))
      [] op = "or" -> Some(BitOr(a, b))
      [] op = "xor" -> Some(BitXor(a, b))
      [] op = "lshift" -> IF b < 0 THEN Raised ELSE Some(PyLShift(a, b))
      [] op = "rshift" -> IF b < 0 THEN Raised ELSE Some(PyRShift(a, b))
      [] OTHER -> Some(0)

\* the try block of equals_pressed up to `result`: Some(result), or Raised
\* when the expression raises (ValueError: negative shift count)
Calculate(op, a, b) ==
    CASE op = "add" -> Some(a + b)
      [] op = "sub" -> Some(a - b)
      [] op = "mul" -> Some(a * b)
      [] op = "div" -> Some(IF b # 0 THEN PyIntTrueDiv(a, b) ELSE 0)
      [] op = "mod" -> Some(IF b # 0 THEN PyMod(a, b) ELSE 0)
      [] op = "and" -> Some(BitAnd(a, b))
      [] op = "or" -> Some(BitOr(a, b))
      [] op = "xor" -> Some(BitXor(a, b))
      [] op = "lshift" -> IF b < 0 THEN Raised ELSE Some(PyLShift(a, b))
      [] op = "rshift" -> IF b < 0 THEN Raised ELSE Some(PyRShift(a, b))
      [] OTHER -> Some(0)

(***************************************************************************)
(* Text: str(), hex(), bin(), int()                                        *)
(***************************************************************************)
DigitChars == <<"0", "1", "2", "3", "4", "5", "6", "7", "8", "9",
                "A", "B", "C", "D", "E", "F">>
LowerHex == <<"0", "1", "2", "3", "4", "5", "6", "7", "8", "9",
              "a", "b", "c", "d", "e", "f">>

\* the digits of n >= 0 in the base, upper case
RECURSIVE ToBase(_, _)
ToBase(n, base) ==
    IF n < base THEN <<DigitChars[n + 1]>>
    ELSE ToBase(n \div base, base) \o <<DigitChars[(n % base) + 1]>>

\* str(value)
PyStr(value) == IF value < 0 THEN <<"-">> \o ToBase(-value, 10) ELSE ToBase(value, 10)

\* thousands separators of f"{value:,}" on a digit string
RECURSIVE GroupThousands(_)
GroupThousands(ds) ==
    IF Len(ds) <= 3 THEN ds
    ELSE GroupThousands(SubSeq(ds, 1, Len(ds) - 3)) \o <<",">>
             \o SubSeq(ds, Len(ds) - 2, Len(ds))

\* f"{value:,}"
PyStrCommas(value) ==
    IF value < 0 THEN <<"-">> \o GroupThousands(ToBase(-value, 10))
    ELSE GroupThousands(ToBase(value, 10))

\* hex(value)[2:].upper(): hex(-31) is "-0x1f", whose [2:] is "x1f"
HexTail(value) == IF value < 0 THEN <<"X">> \o ToBase(-value, 16) ELSE ToBase(value, 16)
\* bin(value)[2:]: bin(-5) is "-0b101", whose [2:] is "b101"
BinTail(value) == IF value < 0 THEN <<"b">> \o ToBase(-value, 2) ELSE ToBase(value, 2)

\* the value of a digit character, 99 for any other character
DigitVal(c) ==
    IF \E i \in 1..16 : DigitChars[i] = c
    THEN (CHOOSE i \in 1..16 : DigitChars[i] = c) - 1
    ELSE IF \E i \in 1..16 : LowerHex[i] = c
    THEN (CHOOSE i \in 1..16 : LowerHex[i] = c) - 1
    ELSE 99

RECURSIVE DigitsValue(_, _)
DigitsValue(ds, base) ==
    IF ds = <<>> THEN 0
    ELSE DigitsValue(SubSeq(ds, 1, Len(ds) - 1), base) * base + DigitVal(ds[Len(ds)])

\* int(text, base) for base 2, 10 or 16: an optional sign, the base's optional
\* prefix (0x for 16, 0b for 2), then one or more digits of the base.  Some(v),
\* or Raised for ValueError.
PyInt(text, base) ==
    LET signed == text # <<>> /\ text[1] \in {"+", "-"}
        t == IF signed THEN Tail(text) ELSE text
        prefixed == /\ Len(t) >= 2
                    /\ t[1] = "0"
                    /\ \/ base = 16 /\ t[2] \in {"x", "X"}
                       \/ base = 2 /\ t[2] \in {"b", "B"}
        ds == IF prefixed THEN SubSeq(t, 3, Len(t)) ELSE t
        m == DigitsValue(ds, base)
    IN  IF ds = <<>> \/ \E i \in 1..Len(ds) : DigitVal(ds[i]) >= base THEN Raised
        ELSE Some(IF signed /\ text[1] = "-" THEN -m ELSE m)

\* text.replace(",", "").replace(" ", "")
RemoveSeparators(text) == SelectSeq(text, LAMBDA c : c \notin {",", " "})

\* text.strip(), on text whose only white space is the space character
RECURSIVE Strip(_)
Strip(text) ==
    IF text = <<>> THEN text
    ELSE IF text[1] = " " THEN Strip(Tail(text))
    ELSE IF text[Len(text)] = " " THEN Strip(SubSeq(text, 1, Len(text) - 1))
    ELSE text

\* clean_text.lower().startswith("0x") and ...startswith("0b")
StartsWith0x(text) == Len(text) >= 2 /\ text[1] = "0" /\ text[2] \in {"x", "X"}
StartsWith0b(text) == Len(text) >= 2 /\ text[1] = "0" /\ text[2] \in {"b", "B"}

\* text.split("=")[-1]
AfterLastEquals(text) ==
    LET eqs == {i \in 1..Len(text) : text[i] = "="}
        last == CHOOSE i \in eqs : \A j \in eqs : j <= i
    IN  IF eqs = {} THEN text ELSE SubSeq(text, last + 1, Len(text))

(***************************************************************************)
(* The calculator object.  A handler is an operator from the object `s`    *)
(* (a record of the fields of ProgrammerCalculator and of the widgets it   *)
(* writes) to the object after the call, so that a handler calling another *)
(* is the composition the source performs.                                 *)
(***************************************************************************)
ErrorText == <<"E", "r", "r", "o", "r">>

OpSymbol(op) ==
    CASE op = "add" -> <<"+">>
      [] op = "sub" -> <<"-">>
      [] op = "mul" -> <<"*">>
      [] op = "div" -> <<"/">>
      [] op = "mod" -> <<"%">>
      [] op = "and" -> <<"&">>
      [] op = "or" -> <<"|">>
      [] op = "xor" -> <<"^">>
      [] op = "lshift" -> <<"<", "<">>
      [] op = "rshift" -> <<">", ">">>
      [] OTHER -> <<op>>

format_value(s, value) ==
    IF s.hex_mode
    THEN LET v == IF value < 0 THEN TwoToWord + value ELSE value
         IN  (IF s.config.hex_prefix THEN <<"0", "x">> ELSE <<>>) \o HexTail(v)
    ELSE IF s.config.show_commas THEN PyStrCommas(value)
    ELSE PyStr(value)

update_display(s) ==
    LET cv == s.current_value
        hex_prefix == IF s.config.hex_prefix THEN <<"0", "x">> ELSE <<>>
        bin_prefix == IF s.config.bin_prefix THEN <<"0", "b">> ELSE <<>>
        bin_str == IF cv < 0 THEN BinTail(TwoToWord + cv) ELSE BinTail(cv)
        hex_str == IF cv < 0 THEN HexTail(TwoToWord + cv) ELSE HexTail(cv)
        bin_part == <<" ", " ", "B", "I", "N", ":", " ">> \o bin_prefix \o bin_str
    IN  [s EXCEPT
           !.display = format_value(s, cv),
           !.alt_display =
               IF s.hex_mode
               THEN <<"D", "E", "C", ":", " ">> \o PyStr(cv) \o bin_part
               ELSE <<"H", "E", "X", ":", " ">> \o hex_prefix \o hex_str \o bin_part]

update_mode_label(s) ==
    [s EXCEPT !.mode_label =
        (IF s.hex_mode THEN <<"H", "E", "X">> ELSE <<"D", "E", "C">>)
            \o (IF s.memory_value # 0 THEN <<" ", "(", "M", ")">> ELSE <<>>)]

update_hex_buttons(s) == [s EXCEPT !.hex_buttons = s.hex_mode]

\* add_history that adds the entry twice
add_history_twice(s, text) ==
    LET items == <<text, text>> \o s.history
    IN  [s EXCEPT
           !.history = SubSeq(items, 1, Min(Len(items), MaxHistory)),
           !.emitted = s.emitted \o <<text, text>>]

\* HistoryPanel.add_entry through add_history: newest first, the oldest entry
\* dropped beyond the panel's capacity
add_history(s, text) ==
    LET items == <<text>> \o s.history
    IN  [s EXCEPT
           !.history = IF Len(items) > MaxHistory
                       THEN SubSeq(items, 1, Len(items) - 1) ELSE items,
           !.emitted = Append(s.emitted, text)]

\* memory_store that also starts the count of presses again
memory_store_resetting_presses(s) ==
    update_mode_label([s EXCEPT !.memory_value = s.current_value,
                                !.new_number = TRUE,
                                !.clear_press_count = 0])

\* memory_store that leaves the entry in progress
memory_store_keeping_entry(s) ==
    update_mode_label([s EXCEPT !.memory_value = s.current_value])

memory_store(s) ==
    update_mode_label([s EXCEPT !.memory_value = s.current_value,
                                !.new_number = TRUE])

\* memory_recall without its condition
memory_recall_always(s) ==
    update_display([s EXCEPT !.current_value = s.memory_value,
                             !.new_number = FALSE])

memory_recall(s) ==
    IF s.operation # None \/ s.current_value = 0
    THEN update_display([s EXCEPT !.current_value = s.memory_value,
                                  !.new_number = FALSE])
    ELSE s

memory_add(s) ==
    [s EXCEPT !.memory_value = s.memory_value + s.current_value,
              !.new_number = TRUE]

memory_sub(s) ==
    [s EXCEPT !.memory_value = s.memory_value - s.current_value,
              !.new_number = TRUE]

\* check_clear_counter that leaves the counter as it is when it wipes
check_clear_counter_no_reset(s, t) ==
    LET s1 == IF t - s.last_clear_time > TicksPerSec
              THEN [s EXCEPT !.clear_press_count = 0] ELSE s
        s2 == [s1 EXCEPT !.clear_press_count = s1.clear_press_count + 1,
                         !.last_clear_time = t]
    IN  IF s2.clear_press_count >= ClearPresses
        THEN update_mode_label([s2 EXCEPT !.memory_value = 0])
        ELSE s2

\* check_clear_counter with the window of the shortcut help, 2 seconds between
\* presses, in place of `> 1.0`
check_clear_counter_2s(s, t) ==
    LET s1 == IF t - s.last_clear_time > 2 * TicksPerSec
              THEN [s EXCEPT !.clear_press_count = 0] ELSE s
        s2 == [s1 EXCEPT !.clear_press_count = s1.clear_press_count + 1,
                         !.last_clear_time = t]
    IN  IF s2.clear_press_count >= ClearPresses
        THEN update_mode_label([s2 EXCEPT !.memory_value = 0,
                                          !.clear_press_count = 0])
        ELSE s2

\* `t` is the value time.time() returns, in ticks
check_clear_counter(s, t) ==
    LET s1 == IF t - s.last_clear_time > TicksPerSec
              THEN [s EXCEPT !.clear_press_count = 0] ELSE s
        s2 == [s1 EXCEPT !.clear_press_count = s1.clear_press_count + 1,
                         !.last_clear_time = t]
    IN  IF s2.clear_press_count >= ClearPresses
        THEN update_mode_label([s2 EXCEPT !.memory_value = 0,
                                          !.clear_press_count = 0])
        ELSE s2

\* switch_mode that also ends the entry in progress
switch_mode_ending_entry(s, to_hex) ==
    IF s.hex_mode = to_hex THEN s
    ELSE update_hex_buttons(update_display(update_mode_label(
             [s EXCEPT !.hex_mode = to_hex, !.new_number = TRUE])))

switch_mode(s, to_hex) ==
    IF s.hex_mode = to_hex THEN s
    ELSE update_hex_buttons(update_display(update_mode_label(
             [s EXCEPT !.hex_mode = to_hex])))

number_pressed(s, num) ==
    update_display(
        IF s.new_number
        THEN [s EXCEPT !.current_value = num, !.new_number = FALSE]
        ELSE IF s.hex_mode
        THEN [s EXCEPT !.current_value = (s.current_value * 16) + num]
        ELSE [s EXCEPT !.current_value = (s.current_value * 10) + num])

\* hex_digit_pressed without `if not self.hex_mode: return`
hex_digit_pressed_any_mode(s, letter) ==
    LET value == DigitVal(letter)
    IN  update_display(
            IF s.new_number
            THEN [s EXCEPT !.current_value = value, !.new_number = FALSE]
            ELSE [s EXCEPT !.current_value = (s.current_value * 16) + value])

\* `letter` is one of the characters A..F (the callers pass no other text)
hex_digit_pressed(s, letter) ==
    IF ~s.hex_mode THEN s
    ELSE LET value == DigitVal(letter)
         IN  update_display(
                 IF s.new_number
                 THEN [s EXCEPT !.current_value = value, !.new_number = FALSE]
                 ELSE [s EXCEPT !.current_value = (s.current_value * 16) + value])

\* equals_pressed that ends the entry when there is nothing to evaluate
equals_pressed_ending_entry(s) ==
    IF s.operation = None /\ s.last_operation = None
    THEN [s EXCEPT !.new_number = TRUE]
    ELSE
    LET pending == s.operation # None
        a == IF pending THEN s.stored_value ELSE s.current_value
        b == IF pending THEN s.current_value ELSE s.last_operand[1]
        op == IF pending THEN s.operation ELSE s.last_operation
        s1 == IF pending
              THEN [s EXCEPT !.last_operation = op, !.last_operand = Some(b)]
              ELSE s
        r == Calculate(op, a, b)
    IN  IF r = Raised
        THEN [s1 EXCEPT !.display = ErrorText]
        ELSE LET result == r[1]
                 line == format_value(s1, a) \o <<" ">> \o OpSymbol(op) \o <<" ">>
                             \o format_value(s1, b) \o <<" ", "=", " ">>
                             \o format_value(s1, result)
                 s2 == add_history(s1, line)
             IN  update_display([s2 EXCEPT !.current_value = result,
                                           !.operation = None,
                                           !.op_label = <<>>,
                                           !.new_number = TRUE])

equals_pressed(s) ==
    IF s.operation = None /\ s.last_operation = None THEN s
    ELSE
    LET pending == s.operation # None
        a == IF pending THEN s.stored_value ELSE s.current_value
        b == IF pending THEN s.current_value ELSE s.last_operand[1]
        op == IF pending THEN s.operation ELSE s.last_operation
        s1 == IF pending
              THEN [s EXCEPT !.last_operation = op, !.last_operand = Some(b)]
              ELSE s
        r == Calculate(op, a, b)
    IN  IF r = Raised
        THEN [s1 EXCEPT !.display = ErrorText]
        ELSE LET result == r[1]
                 line == format_value(s1, a) \o <<" ">> \o OpSymbol(op) \o <<" ">>
                             \o format_value(s1, b) \o <<" ", "=", " ">>
                             \o format_value(s1, result)
                 s2 == add_history(s1, line)
             IN  update_display([s2 EXCEPT !.current_value = result,
                                           !.operation = None,
                                           !.op_label = <<>>,
                                           !.new_number = TRUE])

\* operation_pressed that evaluates whatever is pending, a second operand
\* typed or not
operation_pressed_evaluating(s, op) ==
    LET s1 == IF s.operation # None
              THEN equals_pressed(s)
              ELSE [s EXCEPT !.stored_value = s.current_value]
    IN  [s1 EXCEPT !.operation = op,
                   !.new_number = TRUE,
                   !.op_label = OpSymbol(op)]

operation_pressed(s, op) ==
    LET s1 == IF s.operation # None /\ ~s.new_number
              THEN equals_pressed(s)
              ELSE [s EXCEPT !.stored_value = s.current_value]
    IN  [s1 EXCEPT !.operation = op,
                   !.new_number = TRUE,
                   !.op_label = OpSymbol(op)]

clear_entry(s) ==
    update_display([s EXCEPT !.current_value = 0, !.new_number = TRUE])

\* handle_escape without `self.op_label.setText("")`
handle_escape_keeping_label(s, t) ==
    LET s1 == check_clear_counter(s, t)
    IN  IF s1.operation # None
        THEN [s1 EXCEPT !.operation = None]
        ELSE clear_entry(s1)

\* handle_escape that clears the entry on every press
handle_escape_clearing(s, t) ==
    LET s1 == check_clear_counter(s, t)
    IN  clear_entry([s1 EXCEPT !.operation = None, !.op_label = <<>>])

handle_escape(s, t) ==
    LET s1 == check_clear_counter(s, t)
    IN  IF s1.operation # None
        THEN [s1 EXCEPT !.operation = None, !.op_label = <<>>]
        ELSE clear_entry(s1)

\* clear_all that clears the memory as well, on every press
clear_all_with_memory(s, t) ==
    LET s1 == check_clear_counter(s, t)
    IN  update_mode_label(update_display(
            [s1 EXCEPT !.current_value = 0,
                       !.stored_value = 0,
                       !.operation = None,
                       !.op_label = <<>>,
                       !.last_operation = None,
                       !.last_operand = NoInt,
                       !.memory_value = 0,
                       !.new_number = TRUE]))

\* clear_all without `self.last_operand = None`
clear_all_keeping_operand(s, t) ==
    LET s1 == check_clear_counter(s, t)
    IN  update_display([s1 EXCEPT !.current_value = 0,
                                  !.stored_value = 0,
                                  !.operation = None,
                                  !.op_label = <<>>,
                                  !.last_operation = None,
                                  !.new_number = TRUE])

\* clear_all that leaves the pending operation
clear_all_keeping_operation(s, t) ==
    LET s1 == check_clear_counter(s, t)
    IN  update_display([s1 EXCEPT !.current_value = 0,
                                  !.stored_value = 0,
                                  !.last_operation = None,
                                  !.last_operand = NoInt,
                                  !.new_number = TRUE])

clear_all(s, t) ==
    LET s1 == check_clear_counter(s, t)
    IN  update_display([s1 EXCEPT !.current_value = 0,
                                  !.stored_value = 0,
                                  !.operation = None,
                                  !.op_label = <<>>,
                                  !.last_operation = None,
                                  !.last_operand = NoInt,
                                  !.new_number = TRUE])

backspace(s) ==
    IF s.new_number THEN s
    ELSE update_display(
             IF s.hex_mode
             THEN [s EXCEPT !.current_value = PyFloorDiv(s.current_value, 16)]
             ELSE [s EXCEPT !.current_value = PyFloorDiv(s.current_value, 10)])

\* copy_to_clipboard that copies the entry whatever is pending
ValueToCopyEntry(s) == s.current_value

\* the value copy_to_clipboard formats
ValueToCopy(s) ==
    IF s.operation # None
    THEN IF s.current_value # 0 THEN s.current_value ELSE s.stored_value
    ELSE s.current_value

copy_to_clipboard(s) == [s EXCEPT !.clipboard = format_value(s, ValueToCopy(s))]

\* "Convert from two's complement", as both parsers write it
FromTwosComplement(val) == IF val > TwoToSign THEN val - TwoToWord ELSE val

\* the integer copy_history_value reads from a history line: Some(val), or
\* Raised when int() raises ValueError
HistoryValue(text) ==
    LET result_str == Strip(AfterLastEquals(text))
        clean_text == RemoveSeparators(result_str)
        is_hex == \E i \in 1..Len(clean_text) :
                      clean_text[i] \in {"A", "B", "C", "D", "E", "F",
                                         "a", "b", "c", "d", "e", "f"}
        parsed == IF StartsWith0x(clean_text) THEN PyInt(clean_text, 16)
                  ELSE IF StartsWith0b(clean_text) THEN PyInt(clean_text, 2)
                  ELSE IF is_hex THEN PyInt(clean_text, 16)
                  ELSE PyInt(clean_text, 10)
    IN  IF parsed = Raised THEN Raised ELSE Some(FromTwosComplement(parsed[1]))

copy_history_value(s, text) ==
    IF \A i \in 1..Len(text) : text[i] # "=" THEN s
    ELSE LET val == HistoryValue(text)
         IN  IF val = Raised THEN s
             ELSE [s EXCEPT !.clipboard = format_value(s, val[1])]

\* the integer paste_from_clipboard parses from the clipboard text (already
\* stripped and not empty), before the two's complement conversion:
\* Some(new_val), or Raised for ValueError
PasteParsed(s, text) ==
    LET clean_text == RemoveSeparators(text)
        hex == PyInt(clean_text, 16)
    IN  IF StartsWith0x(clean_text) THEN hex
        ELSE IF StartsWith0b(clean_text) THEN PyInt(clean_text, 2)
        ELSE IF s.hex_mode /\ hex # Raised THEN hex
        ELSE PyInt(clean_text, 10)

\* the integer paste_from_clipboard stores: Some(new_val), or Raised
PasteValue(s, text) ==
    LET parsed == PasteParsed(s, text)
    IN  IF parsed = Raised THEN Raised ELSE Some(FromTwosComplement(parsed[1]))

\* paste_from_clipboard that ends the entry when the text does not parse
paste_from_clipboard_resetting(s) ==
    LET text == Strip(s.clipboard)
    IN  IF text = <<>> THEN s
        ELSE LET new_val == PasteValue(s, text)
             IN  IF new_val = Raised THEN [s EXCEPT !.new_number = TRUE]
                 ELSE update_display([s EXCEPT !.current_value = new_val[1],
                                               !.new_number = FALSE])

\* paste_from_clipboard without `self.new_number = False`
paste_from_clipboard_keeping_new_number(s) ==
    LET text == Strip(s.clipboard)
    IN  IF text = <<>> THEN s
        ELSE LET new_val == PasteValue(s, text)
             IN  IF new_val = Raised THEN s
                 ELSE update_display([s EXCEPT !.current_value = new_val[1]])

paste_from_clipboard(s) ==
    LET text == Strip(s.clipboard)
    IN  IF text = <<>> THEN s
        ELSE LET new_val == PasteValue(s, text)
             IN  IF new_val = Raised THEN s
                 ELSE update_display([s EXCEPT !.current_value = new_val[1],
                                               !.new_number = FALSE])

\* the settings dialog accepted with the three check boxes as given
show_settings(s, hex_prefix, bin_prefix, show_commas) ==
    update_display([s EXCEPT !.config = [hex_prefix |-> hex_prefix,
                                         bin_prefix |-> bin_prefix,
                                         show_commas |-> show_commas]])

\* HistoryPanel.clear_history (Edit > Clear History)
clear_history(s) == [s EXCEPT !.history = <<>>]

(***************************************************************************)
(* State                                                                   *)
(***************************************************************************)
VARIABLES
    current_value, stored_value, operation, memory_value,
    clear_press_count, last_clear_time, last_operation, last_operand,
    hex_mode, new_number,
    config,          \* hex_prefix, bin_prefix, show_commas of self.config
    history,         \* texts of HistoryPanel.history_items, newest first
    clipboard,       \* text of QApplication.clipboard()
    display, alt_display, op_label, mode_label,   \* texts of the labels
    hex_buttons,     \* whether the buttons A..F are enabled
    emitted,         \* the history lines the last event passed to add_history
    now,             \* the clock, in ticks, when it was last read
    press_log,       \* the last ClearPresses presses of Escape / Clear:
                     \* <<time, handler, clear_press_count after it>>
    last_event,      \* the last input event: <<handler, argument>>
    budget           \* input events left in this run

vars == <<current_value, stored_value, operation, memory_value,
          clear_press_count, last_clear_time, last_operation, last_operand,
          hex_mode, new_number, config, history, clipboard,
          display, alt_display, op_label, mode_label, hex_buttons,
          emitted, now, press_log, last_event, budget>>

\* the object after __init__ with no config.json: the defaults of self.config
\* and of the fields, the widgets as init_ui and load_settings leave them
Constructed ==
    [current_value |-> 0, stored_value |-> 0, operation |-> None,
     memory_value |-> 0, clear_press_count |-> 0, last_clear_time |-> 0,
     last_operation |-> None, last_operand |-> NoInt,
     hex_mode |-> FALSE, new_number |-> TRUE,
     config |-> [hex_prefix |-> TRUE, bin_prefix |-> TRUE, show_commas |-> FALSE],
     history |-> <<>>, clipboard |-> <<>>,
     display |-> <<"0">>,
     alt_display |-> <<"H", "E", "X", ":", " ", "0", "x", "0", " ", " ",
                       "B", "I", "N", ":", " ", "0", "b", "0">>,
     op_label |-> <<>>, mode_label |-> <<"D", "E", "C">>,
     hex_buttons |-> FALSE, emitted |-> <<>>,
     now |-> StartTime, press_log |-> <<>>]

\* the object as the variables hold it when an event arrives: it has emitted
\* nothing yet
Self ==
    [current_value |-> current_value, stored_value |-> stored_value,
     operation |-> operation, memory_value |-> memory_value,
     clear_press_count |-> clear_press_count, last_clear_time |-> last_clear_time,
     last_operation |-> last_operation, last_operand |-> last_operand,
     hex_mode |-> hex_mode, new_number |-> new_number, config |-> config,
     history |-> history, clipboard |-> clipboard,
     display |-> display, alt_display |-> alt_display, op_label |-> op_label,
     mode_label |-> mode_label, hex_buttons |-> hex_buttons, emitted |-> <<>>,
     now |-> now, press_log |-> press_log]

Holds(t) ==
    /\ current_value = t.current_value /\ stored_value = t.stored_value
    /\ operation = t.operation /\ memory_value = t.memory_value
    /\ clear_press_count = t.clear_press_count
    /\ last_clear_time = t.last_clear_time
    /\ last_operation = t.last_operation /\ last_operand = t.last_operand
    /\ hex_mode = t.hex_mode /\ new_number = t.new_number
    /\ config = t.config /\ history = t.history /\ clipboard = t.clipboard
    /\ display = t.display /\ alt_display = t.alt_display
    /\ op_label = t.op_label /\ mode_label = t.mode_label
    /\ hex_buttons = t.hex_buttons /\ emitted = t.emitted
    /\ now = t.now /\ press_log = t.press_log

Becomes(t) ==
    /\ current_value' = t.current_value /\ stored_value' = t.stored_value
    /\ operation' = t.operation /\ memory_value' = t.memory_value
    /\ clear_press_count' = t.clear_press_count
    /\ last_clear_time' = t.last_clear_time
    /\ last_operation' = t.last_operation /\ last_operand' = t.last_operand
    /\ hex_mode' = t.hex_mode /\ new_number' = t.new_number
    /\ config' = t.config /\ history' = t.history /\ clipboard' = t.clipboard
    /\ display' = t.display /\ alt_display' = t.alt_display
    /\ op_label' = t.op_label /\ mode_label' = t.mode_label
    /\ hex_buttons' = t.hex_buttons /\ emitted' = t.emitted
    /\ now' = t.now /\ press_log' = t.press_log

\* every integer of the object within the range the model follows
InModel(t) ==
    /\ Abs(t.current_value) <= MaxAbs
    /\ Abs(t.stored_value) <= MaxAbs
    /\ Abs(t.memory_value) <= MaxAbs
    /\ t.last_operand # NoInt => Abs(t.last_operand[1]) <= MaxAbs
    /\ t.now <= StartTime + MaxElapsed

(***************************************************************************)
(* Input events                                                            *)
(***************************************************************************)
\* Escape or Clear pressed dt ticks after the clock was last read: the handler
\* reads the clock (time.time()) in check_clear_counter
Press(s, handler, dt) ==
    LET t == s.now + dt
        s1 == IF handler = "handle_escape" THEN handle_escape(s, t) ELSE clear_all(s, t)
        log == Append(s.press_log, <<t, handler, s1.clear_press_count>>)
    IN  [s1 EXCEPT !.now = t,
                   !.press_log = IF Len(log) > ClearPresses THEN Tail(log) ELSE log]

\* the object after the input event `ev` on the object `s`
Handle(s, ev) ==
    LET s0 == [s EXCEPT !.emitted = <<>>]
    IN  CASE ev[1] = "number_pressed" -> number_pressed(s0, ev[2])
          [] ev[1] = "hex_digit_pressed" -> hex_digit_pressed(s0, ev[2])
          [] ev[1] = "operation_pressed" -> operation_pressed(s0, ev[2])
          [] ev[1] = "equals_pressed" -> equals_pressed(s0)
          [] ev[1] = "memory_store" -> memory_store(s0)
          [] ev[1] = "memory_recall" -> memory_recall(s0)
          [] ev[1] = "memory_add" -> memory_add(s0)
          [] ev[1] = "memory_sub" -> memory_sub(s0)
          [] ev[1] = "handle_escape" -> Press(s0, "handle_escape", ev[2])
          [] ev[1] = "clear_all" -> Press(s0, "clear_all", ev[2])
          [] ev[1] = "backspace" -> backspace(s0)
          [] ev[1] = "switch_mode" -> switch_mode(s0, ev[2])
          [] ev[1] = "copy_to_clipboard" -> copy_to_clipboard(s0)
          [] ev[1] = "paste_from_clipboard" -> paste_from_clipboard(s0)
          [] ev[1] = "copy_history_value" -> copy_history_value(s0, s0.history[ev[2]])
          [] ev[1] = "show_settings" -> show_settings(s0, ev[2], ev[3], ev[4])
          [] ev[1] = "clear_history" -> clear_history(s0)
          [] ev[1] = "clipboard_changed" -> [s0 EXCEPT !.clipboard = ev[2]]

\* the input event `ev` has left the object `t`: the whole handler, one step
Event(ev, t) ==
    /\ InModel(t)
    /\ Becomes(t)
    /\ last_event' = ev
    /\ budget' = budget - 1

\* inputs of the events
DigitKeys == 0..9
HexKeys == {"A", "B", "C", "D", "E", "F"}
\* texts other applications leave on the clipboard
ExternalTexts == { <<"-", "1">>, <<"0", "x", "8", "0">>, <<"1", ",", "0", "0", "0">>,
                   <<"F", "F">>, <<"z">>, <<" ">>,
                   <<"-", "1", "5">>, <<"0", "x", "F", "F">>, <<"1", "2">> }

Ev_number_pressed == \E num \in DigitKeys :
        budget > 0 /\ Event(<<"number_pressed", num>>, number_pressed(Self, num))

Ev_hex_digit_pressed == \E letter \in HexKeys :
        budget > 0 /\ Event(<<"hex_digit_pressed", letter>>, hex_digit_pressed(Self, letter))

Ev_operation_pressed == \E op \in Ops :
        budget > 0 /\ Event(<<"operation_pressed", op>>, operation_pressed(Self, op))

Ev_equals_pressed ==
    budget > 0 /\ Event(<<"equals_pressed">>, equals_pressed(Self))

Ev_memory_store == budget > 0 /\ Event(<<"memory_store">>, memory_store(Self))

Ev_memory_recall ==
    budget > 0 /\ Event(<<"memory_recall">>, memory_recall(Self))

Ev_memory_add == budget > 0 /\ Event(<<"memory_add">>, memory_add(Self))

Ev_memory_sub == budget > 0 /\ Event(<<"memory_sub">>, memory_sub(Self))

Ev_handle_escape == \E dt \in 0..MaxElapsed :
        budget > 0 /\ Event(<<"handle_escape", dt>>, Press(Self, "handle_escape", dt))

Ev_clear_all == \E dt \in 0..MaxElapsed :
        budget > 0 /\ Event(<<"clear_all", dt>>, Press(Self, "clear_all", dt))

Ev_backspace == budget > 0 /\ Event(<<"backspace">>, backspace(Self))

Ev_switch_mode == \E to_hex \in BOOLEAN :
        budget > 0 /\ Event(<<"switch_mode", to_hex>>, switch_mode(Self, to_hex))

Ev_copy_to_clipboard ==
    budget > 0 /\ Event(<<"copy_to_clipboard">>, copy_to_clipboard(Self))

Ev_paste_from_clipboard ==
    budget > 0 /\ Event(<<"paste_from_clipboard">>, paste_from_clipboard(Self))

\* a click on the i-th line of the history panel
Ev_copy_history_value ==
    \E i \in 1..Len(history) : budget > 0 /\ Event(<<"copy_history_value", i>>, copy_history_value(Self, history[i]))

\* the settings dialog accepted
Ev_show_settings ==
    \E hp \in BOOLEAN, bp \in BOOLEAN, sc \in BOOLEAN :
        budget > 0 /\ Event(<<"show_settings", hp, bp, sc>>, show_settings(Self, hp, bp, sc))

Ev_clear_history ==
    budget > 0 /\ Event(<<"clear_history">>, clear_history(Self))

\* another application puts a text on the clipboard
Ev_clipboard_changed ==
    \E text \in ExternalTexts : budget > 0 /\ Event(<<"clipboard_changed", text>>, [Self EXCEPT !.clipboard = text])

(***************************************************************************)
(* Sessions.  A run starts from the object a session has left: the input   *)
(* events of a script, handled in order from the constructed object.       *)
(* Every initial state is therefore a state the program reaches.           *)
(***************************************************************************)
RECURSIVE Run(_, _)
Run(s, script) ==
    IF script = <<>> THEN s ELSE Run(Handle(s, Head(script)), Tail(script))

\* typing the digits ds (values 0..15, those above 9 on the keys A..F)
RECURSIVE Type(_)
Type(ds) ==
    IF ds = <<>> THEN <<>>
    ELSE <<IF Head(ds) < 10 THEN <<"number_pressed", Head(ds)>>
           ELSE <<"hex_digit_pressed", DigitChars[Head(ds) + 1]>> >> \o Type(Tail(ds))

Op(op) == << <<"operation_pressed", op>> >>
Equals == << <<"equals_pressed">> >>
ToHex == << <<"switch_mode", TRUE>> >>

\* the operands the sessions type: decimal, and in hexadecimal mode
Operands == {<<0>>, <<3>>, <<5>>, <<1, 2>>, <<1, 2, 7>>}
HexOperands == {<<1, 0>>, <<8, 0>>, <<15, 15>>}

\* nothing yet; a first operand; an operator after it; a second operand; the
\* evaluation; a value stored to the memory
DecimalSessions ==
    {<<>>}
    \cup {Type(a) : a \in Operands}
    \cup {Type(a) \o Op(op) : a \in Operands, op \in Ops}
    \cup {Type(a) \o Op(op) \o Type(b) : a \in Operands, op \in Ops, b \in Operands}
    \cup {Type(a) \o Op(op) \o Type(b) \o Equals :
              a \in Operands, op \in Ops, b \in Operands}
    \cup {Type(a) \o << <<"memory_store">> >> : a \in Operands}

\* the same in hexadecimal mode
HexSessions ==
    {ToHex \o Type(a) : a \in HexOperands}
    \cup {ToHex \o Type(a) \o Op(op) \o Type(b) :
              a \in HexOperands \cup {<<0>>}, op \in Ops, b \in HexOperands}

\* two operators in a row: a op1 b op2 c, the evaluation still to come
ChainOperands == 2..4
ChainOps == {"add", "mul"}
ChainScript(a, op1, b, op2, c) ==
    Type(<<a>>) \o Op(op1) \o Type(<<b>>) \o Op(op2) \o Type(<<c>>)
ChainSessions ==
    {ChainScript(a, op1, b, op2, c) :
         a \in ChainOperands, op1 \in ChainOps, b \in ChainOperands,
         op2 \in ChainOps, c \in ChainOperands}

\* a text put on the clipboard by another application, in either mode, with
\* nothing typed or with a digit typed; and such a text pasted
Clip(text) == << <<"clipboard_changed", text>> >>
ClipboardSessions ==
    {pre \o Clip(text) :
         pre \in {<<>>, Type(<<5>>), ToHex, ToHex \o Type(<<5>>)},
         text \in ExternalTexts}
    \cup {Clip(text) \o << <<"paste_from_clipboard">> >> : text \in ExternalTexts}

\* sessions that reach the corners: a shift by a negative count left in the
\* repeat cache; two quick presses of Clear or of Escape after a value was
\* stored to the memory; a value stored right after the memory was wiped;
\* hexadecimal without prefix; a shift pending on a negative value; a negative
\* dividend; a quotient of full width; a result below -2^64 in hexadecimal
\* mode; an operator pending with a value in the memory; a negative shift
\* count pasted as the second operand; a digit and an operator between two
\* quick presses of Clear and Escape; an operator pressed after a second
\* operand, nothing typed after it
CornerSessions ==
    { Type(<<0>>) \o Op("sub") \o Type(<<1>>) \o Equals \o Op("lshift") \o Equals
          \o << <<"handle_escape", 0>> >>,
      Type(<<5>>) \o << <<"memory_store">>, <<"clear_all", 0>>, <<"clear_all", 1>> >>,
      Type(<<5>>) \o << <<"memory_store">>, <<"handle_escape", 0>>,
                        <<"handle_escape", 0>> >>,
      << <<"clear_all", 0>>, <<"clear_all", 0>>, <<"clear_all", 0>> >>
          \o Type(<<7>>) \o << <<"memory_store">> >>,
      << <<"show_settings", FALSE, TRUE, TRUE>> >> \o ToHex \o Type(<<8>>)
          \o Op("add") \o Type(<<8>>),
      Type(<<0>>) \o Op("sub") \o Type(<<1>>) \o Equals \o Op("lshift"),
      Type(<<0>>) \o Op("sub") \o Type(<<7>>) \o Equals \o Op("mod") \o Type(<<2>>),
      Type(<<0>>) \o Op("sub") \o Type(<<7>>) \o Equals \o Op("div") \o Type(<<2>>),
      Type(<<1, 2, 7>>) \o Op("div") \o Type(<<1>>),
      ToHex \o Type(<<0>>) \o Op("sub") \o Type(<<1, 0, 1>>) \o Equals,
      Type(<<5>>) \o << <<"memory_store">> >> \o Type(<<3>>) \o Op("add"),
      Type(<<5>>) \o Op("lshift") \o Clip(<<"-", "1">>)
          \o << <<"paste_from_clipboard">> >>,
      Type(<<5>>) \o << <<"memory_store">>, <<"clear_all", 0>> >> \o Type(<<3>>)
          \o Op("add") \o << <<"handle_escape", 1>> >>,
      Type(<<2>>) \o Op("add") \o Type(<<3>>) \o Op("mul") }

\* a second operand typed, then one of the memory keys MS, M+, M-
MemoryKeys == {"memory_store", "memory_add", "memory_sub"}
OperandThenMemory(a, op, b, key) ==
    Type(<<a>>) \o Op(op) \o Type(<<b>>) \o << <<key>> >>
MemorySessions ==
    {OperandThenMemory(5, op, 3, key) : op \in ChainOps, key \in MemoryKeys}

Sessions ==
    DecimalSessions \cup HexSessions \cup ChainSessions \cup ClipboardSessions
        \cup CornerSessions \cup MemorySessions

\* the run starts after `script`, with n events to come
StartAfter(script, n) ==
    LET t == Run(Constructed, script)
    IN  /\ InModel(t)
        /\ Holds(t)
        /\ last_event = IF script = <<>> THEN <<"__init__">> ELSE script[Len(script)]
        /\ budget = n

Init == \E script \in Sessions : StartAfter(script, MaxSteps)

Next ==
    \/ Ev_number_pressed
    \/ Ev_hex_digit_pressed
    \/ Ev_operation_pressed
    \/ Ev_equals_pressed
    \/ Ev_memory_store
    \/ Ev_memory_recall
    \/ Ev_memory_add
    \/ Ev_memory_sub
    \/ Ev_handle_escape
    \/ Ev_clear_all
    \/ Ev_backspace
    \/ Ev_switch_mode
    \/ Ev_copy_to_clipboard
    \/ Ev_paste_from_clipboard
    \/ Ev_copy_history_value
    \/ Ev_show_settings
    \/ Ev_clear_history
    \/ Ev_clipboard_changed

Spec == Init /\ [][Next]_vars

(***************************************************************************)
(* Properties                                                              *)
(***************************************************************************)
\* the last event was handled in this run, not in the session before it
InRun == budget < MaxSteps

Evaluated == last_event[1] = "equals_pressed" /\ emitted # <<>>

IsPress(ev) == ev[1] \in {"handle_escape", "clear_all"}

\* the log holds ClearPresses presses, each no more than a second after the
\* one before it
QuickPresses(log) ==
    /\ Len(log) = ClearPresses
    /\ \A i \in 2..Len(log) : log[i][1] - log[i - 1][1] <= TicksPerSec

\* the first press of the log started a count: it left the counter at 1
CountedFromOne(log) == log # <<>> /\ log[1][3] = 1

(***************************************************************************)
(* C1.  Evaluation is strictly sequential, left to right: the events       *)
(* digits(A), operator(op1), digits(B), operator(op2), digits(C), equals   *)
(* end with current_value = op2(op1(A, B), C).  In whatever state that     *)
(* sequence of events leaves the calculator, current_value is that value.  *)
(***************************************************************************)
C1_LeftToRight ==
    (InRun /\ last_event[1] = "equals_pressed") =>
        \A a \in ChainOperands, b \in ChainOperands, c \in ChainOperands,
           op1 \in ChainOps, op2 \in ChainOps :
            Holds(Run(Constructed, ChainScript(a, op1, b, op2, c) \o Equals))
                => current_value
                     = Calculate(op2, Calculate(op1, a, b)[1], c)[1]

(***************************************************************************)
(* C2.  In every reachable state current_value lies in the signed range    *)
(* of the word, [-2^63, 2^63 - 1].                                         *)
(***************************************************************************)
C2_SignedRange == InS64(current_value)

(***************************************************************************)
(* C3.  Repeat path of equals: pressed with no pending operation and       *)
(* last_operation set, equals makes current_value the value of             *)
(* last_operation(current_value, last_operand), a result of the word's     *)
(* width as every result is said to be, and leaves last_operation and      *)
(* last_operand unchanged.  Stated for a current_value and a last_operand  *)
(* that are themselves within the signed range.                            *)
(***************************************************************************)
C3_RepeatEquals ==
    [][ ( /\ last_event'[1] = "equals_pressed"
          /\ operation = None
          /\ last_operation # None
          /\ InS64(current_value)
          /\ InS64(last_operand[1]) )
        => LET r == Calculate(last_operation, current_value, last_operand[1])
           IN  /\ r # Raised
               /\ current_value' = WrapS64(r[1])
               /\ UNCHANGED <<last_operation, last_operand>> ]_vars

(***************************************************************************)
(* C4.  Division and modulo by zero are not errors: equals evaluating      *)
(* a div 0 or a mod 0, on the pending path or on the repeat path, sets     *)
(* current_value to 0, clears operation, sets new_number, emits one        *)
(* history line, and the display does not show "Error".                    *)
(***************************************************************************)
DivModByZero ==
    \/ operation \in {"div", "mod"} /\ current_value = 0
    \/ /\ operation = None
       /\ last_operation \in {"div", "mod"}
       /\ last_operand = Some(0)

C4_DivModByZero ==
    [][ (last_event'[1] = "equals_pressed" /\ DivModByZero)
        => /\ current_value' = 0
           /\ operation' = None
           /\ new_number'
           /\ Len(emitted') = 1
           /\ history' # <<>> /\ history'[1] = emitted'[1]
           /\ display' # ErrorText ]_vars

\* 5 / 0 = has left 0, with the division in the repeat cache and its line in
\* the history
C4_Witness ==
    /\ InRun /\ Evaluated
    /\ stored_value = 5 /\ last_operation = "div" /\ last_operand = Some(0)
    /\ current_value = 0 /\ operation = None /\ new_number
    /\ history[1] = <<"5", " ", "/", " ", "0", " ", "=", " ", "0">>

(***************************************************************************)
(* C5.  Digits entered from a state with new_number true accumulate to the *)
(* base-radix value of the digit sequence wrapped to the signed word,      *)
(* whatever current_value held before: the first digit replaces            *)
(* current_value, and each further digit d makes it                        *)
(* wrap(current_value * radix + d).  Digits valid in the mode only; stated *)
(* for a current_value within the signed range.                            *)
(***************************************************************************)
C5_DigitAccumulation ==
    [][ ( /\ \/ last_event'[1] = "number_pressed"
             \/ last_event'[1] = "hex_digit_pressed" /\ hex_mode
          /\ InS64(current_value) )
        => LET d == IF last_event'[1] = "number_pressed" THEN last_event'[2]
                    ELSE DigitVal(last_event'[2])
               radix == IF hex_mode THEN 16 ELSE 10
           IN  current_value' = IF new_number THEN d
                                ELSE WrapS64((current_value * radix) + d) ]_vars

(***************************************************************************)
(* C6.  switch_mode(to_hex) changes only hex_mode: current_value,          *)
(* stored_value, operation, memory_value, last_operation, last_operand and *)
(* new_number are unchanged, hex_mode becomes to_hex, and when to_hex is   *)
(* the current hex_mode nothing of the calculator changes at all.  Hence   *)
(* switching to hexadecimal and back restores these fields.                *)
(***************************************************************************)
C6_SwitchModeFrame ==
    [][ last_event'[1] = "switch_mode"
        => /\ UNCHANGED <<current_value, stored_value, operation, memory_value,
                          last_operation, last_operand, new_number>>
           /\ hex_mode' = last_event'[2]
           /\ UNCHANGED <<clear_press_count, last_clear_time, config, history,
                          clipboard, op_label>>
           /\ last_event'[2] = hex_mode
                 => UNCHANGED <<hex_mode, display, alt_display, mode_label,
                                hex_buttons>> ]_vars

\* 127 typed in decimal, then the switch to hexadecimal: the value is the
\* same and the display shows it in hexadecimal
C6_Witness ==
    /\ InRun /\ last_event = <<"switch_mode", TRUE>>
    /\ hex_mode /\ hex_buttons
    /\ current_value = 127 /\ ~new_number
    /\ display = <<"0", "x", "7", "F">>
    /\ mode_label = <<"H", "E", "X">>

(***************************************************************************)
(* C7.  clear_all() resets current_value and stored_value to 0, operation, *)
(* last_operation and last_operand to None, sets new_number, and does not  *)
(* clear memory_value.                                                     *)
(***************************************************************************)
ClearAllResets ==
    /\ current_value' = 0 /\ stored_value' = 0
    /\ operation' = None
    /\ last_operation' = None /\ last_operand' = NoInt
    /\ new_number'

C7_ClearAllKeepsMemory ==
    [][ last_event'[1] = "clear_all"
        => ClearAllResets /\ memory_value' = memory_value ]_vars

(***************************************************************************)
(* C7, amended.  clear_all() resets the same fields and leaves             *)
(* memory_value unchanged, unless the press completes the memory-wipe      *)
(* gesture (it is the third press of Clear or Escape, each no more than a  *)
(* second after the one before, counted from a press that started a        *)
(* count): then memory_value becomes 0.                                    *)
(***************************************************************************)
C7_ClearAllKeepsMemoryUnlessThird ==
    [][ last_event'[1] = "clear_all"
        => /\ ClearAllResets
           /\ memory_value' = IF QuickPresses(press_log') /\ CountedFromOne(press_log')
                              THEN 0 ELSE memory_value ]_vars

\* 5 stored to the memory, then Clear: everything is reset and the memory
\* still holds 5
C7_Witness ==
    /\ InRun /\ last_event[1] = "clear_all"
    /\ memory_value = 5 /\ mode_label = <<"D", "E", "C", " ", "(", "M", ")">>
    /\ current_value = 0 /\ stored_value = 0 /\ operation = None
    /\ last_operation = None /\ last_operand = NoInt /\ new_number
    /\ clear_press_count = 1

(***************************************************************************)
(* C8.  Memory-wipe gesture: three presses of Clear or Escape, each no     *)
(* more than 1.0 after the previous one, leave memory_value 0 on the third *)
(* press; a press more than 1.0 after the previous one restarts the count  *)
(* at 1 and leaves memory_value as it was.                                 *)
(***************************************************************************)
Restarts ==
    now' - last_clear_time > TicksPerSec
        => clear_press_count' = 1 /\ memory_value' = memory_value

C9_ThreeEscapesWithinTwoSeconds ==
    ( /\ last_event[1] = "handle_escape"
      /\ Len(press_log) = ClearPresses
      /\ \A i \in 1..Len(press_log) : press_log[i][2] = "handle_escape"
      /\ CountedFromOne(press_log)
      /\ press_log[ClearPresses][1] - press_log[1][1] <= 2 * TicksPerSec )
    => memory_value = 0

(***************************************************************************)
(* C10.  History round trip: the line equals emits for a result r of the   *)
(* signed range, read back as copy_history_value reads a history line      *)
(* (the text after the last "=", the prefix rule, hexadecimal if a letter  *)
(* A-F appears and decimal otherwise, two's complement), gives r, in both  *)
(* modes and under every setting of hex_prefix and show_commas.            *)
(***************************************************************************)
C10_HistoryRoundTrip ==
    (Evaluated /\ InS64(current_value))
        => HistoryValue(emitted[1]) = Some(current_value)

\* nothing of the calculator changes: its fields, its memory of presses, its
\* settings, the history, the clipboard, the labels and the buttons
ObjectUnchanged ==
    UNCHANGED <<current_value, stored_value, operation, memory_value,
                clear_press_count, last_clear_time, last_operation,
                last_operand, hex_mode, new_number, config, history,
                clipboard, display, alt_display, op_label, mode_label,
                hex_buttons>>

\* the seven variables of the engine's state
StateUnchanged ==
    UNCHANGED <<current_value, stored_value, operation, last_operation,
                last_operand, new_number, memory_value>>

\* the quotient of a by b (b # 0) truncated toward zero
TruncQuot(a, b) ==
    IF (a < 0) = (b < 0) THEN Abs(a) \div Abs(b) ELSE -(Abs(a) \div Abs(b))

(***************************************************************************)
(* C11.  Paste two's-complement conversion: when the clipboard text parses *)
(* to v, a v with 2^63 <= v < 2^64 makes current_value v - 2^64, and       *)
(* current_value is within the signed range after every successful paste.  *)
(***************************************************************************)
C11_PasteTwosComplement ==
    [][ ( /\ last_event'[1] = "paste_from_clipboard"
          /\ Strip(clipboard) # <<>>
          /\ PasteParsed(Self, Strip(clipboard)) # Raised )
        => LET v == PasteParsed(Self, Strip(clipboard))[1]
           IN  /\ (TwoToSign <= v /\ v < TwoToWord)
                     => current_value' = v - TwoToWord
               /\ InS64(current_value') ]_vars

(***************************************************************************)
(* C12.  Every operation is all-or-nothing.  For equals: the press either  *)
(* completes its update (a history line emitted, operation cleared,        *)
(* new_number set) or leaves current_value, stored_value, operation,       *)
(* last_operation, last_operand, new_number and memory_value unchanged.    *)
(***************************************************************************)
C12_EqualsAllOrNothing ==
    [][ last_event'[1] = "equals_pressed"
        => \/ StateUnchanged
           \/ emitted' # <<>> /\ operation' = None /\ new_number' ]_vars

(***************************************************************************)
(* C13.  A paste whose text is empty or does not parse, and a click on a   *)
(* history line that does not parse, are ignored: nothing of the           *)
(* calculator changes.                                                     *)
(***************************************************************************)
PasteFails ==
    \/ Strip(clipboard) = <<>>
    \/ PasteValue(Self, Strip(clipboard)) = Raised

HistoryClickFails(text) ==
    \/ \A i \in 1..Len(text) : text[i] # "="
    \/ HistoryValue(text) = Raised

C13_ParseFailureIgnored ==
    [][ /\ (last_event'[1] = "paste_from_clipboard" /\ PasteFails)
            => ObjectUnchanged
        /\ ( /\ last_event'[1] = "copy_history_value"
             /\ HistoryClickFails(history[last_event'[2]]) )
            => ObjectUnchanged ]_vars

\* 5 typed, the text "z" on the clipboard, Paste: the 5 is still being typed
C13_Witness ==
    /\ InRun /\ last_event[1] = "paste_from_clipboard"
    /\ clipboard = <<"z">>
    /\ current_value = 5 /\ ~new_number /\ display = <<"5">>

(***************************************************************************)
(* C14.  memory_recall() takes effect only if an operation is pending or   *)
(* current_value is 0: then current_value becomes memory_value and         *)
(* new_number false; otherwise nothing of the calculator changes.  It      *)
(* never changes memory_value, stored_value or operation.                  *)
(***************************************************************************)
C14_MemoryRecall ==
    [][ last_event'[1] = "memory_recall"
        => /\ UNCHANGED <<memory_value, stored_value, operation>>
           /\ IF operation # None \/ current_value = 0
              THEN /\ current_value' = memory_value
                   /\ ~new_number'
                   /\ UNCHANGED <<last_operation, last_operand, hex_mode>>
              ELSE ObjectUnchanged ]_vars

\* 5 stored to the memory, 3 typed, +, then MR: the operator is still
\* pending on 3 and the entry is the 5 of the memory
C14_Witness ==
    /\ InRun /\ last_event[1] = "memory_recall"
    /\ memory_value = 5 /\ stored_value = 3 /\ operation = "add"
    /\ current_value = 5 /\ ~new_number /\ display = <<"5">>

(***************************************************************************)
(* C15.  Pending path of equals: with operation set, equals computes       *)
(* operation(stored_value, current_value), a result of the word's width as *)
(* every result is said to be, caches last_operation = operation and       *)
(* last_operand = the current_value before the evaluation, and sets        *)
(* current_value to the result, operation to None and new_number.  Stated  *)
(* for a stored_value and a current_value within the signed range.         *)
(***************************************************************************)
C15_PendingEquals ==
    [][ ( /\ last_event'[1] = "equals_pressed"
          /\ operation # None
          /\ InS64(stored_value)
          /\ InS64(current_value) )
        => LET r == Calculate(operation, stored_value, current_value)
           IN  /\ r # Raised
               /\ current_value' = WrapS64(r[1])
               /\ last_operation' = operation
               /\ last_operand' = Some(current_value)
               /\ operation' = None
               /\ new_number' ]_vars

(***************************************************************************)
(* C16.  With operation None and last_operation None, equals is a no-op:   *)
(* nothing of the calculator changes, new_number included, and no history  *)
(* line is emitted.                                                        *)
(***************************************************************************)
C16_EqualsNoOp ==
    [][ ( /\ last_event'[1] = "equals_pressed"
          /\ operation = None
          /\ last_operation = None )
        => ObjectUnchanged /\ emitted' = <<>> ]_vars

\* 5 typed, then =: the 5 is still being typed and the history is empty
C16_Witness ==
    /\ InRun /\ last_event[1] = "equals_pressed"
    /\ operation = None /\ last_operation = None /\ last_operand = NoInt
    /\ current_value = 5 /\ ~new_number
    /\ history = <<>> /\ emitted = <<>>

(***************************************************************************)
(* C17.  Mod is the remainder of truncating division: for b # 0 the        *)
(* result r of a mod b satisfies a = trunc(a / b) * b + r (-7 mod 2 = -1). *)
(* Stated for equals on a pending mod with both operands in the signed     *)
(* range.                                                                  *)
(***************************************************************************)
C17_ModTruncates ==
    [][ ( /\ last_event'[1] = "equals_pressed"
          /\ operation = "mod"
          /\ current_value # 0
          /\ InS64(stored_value) /\ InS64(current_value) )
        => current_value'
             = stored_value - (TruncQuot(stored_value, current_value) * current_value)
      ]_vars

(***************************************************************************)
(* C18.  Div is integer division truncated toward zero, exact for every a  *)
(* and every b # 0 of the signed range: |q| = floor(|a| / |b|) with the    *)
(* sign of a * b.  Stated for equals on a pending div.                     *)
(***************************************************************************)
C18_DivTruncatesExactly ==
    [][ ( /\ last_event'[1] = "equals_pressed"
          /\ operation = "div"
          /\ current_value # 0
          /\ InS64(stored_value) /\ InS64(current_value) )
        => current_value' = TruncQuot(stored_value, current_value) ]_vars

(***************************************************************************)
(* C19.  backspace() is a no-op when new_number is true; otherwise         *)
(* current_value becomes current_value divided by the radix (16 in         *)
(* hexadecimal mode, 10 in decimal) with the remainder discarded, negative *)
(* values included (-15 becomes -1), and new_number and the other          *)
(* variables are unchanged.                                                *)
(***************************************************************************)
C19_BackspaceDropsDigit ==
    [][ last_event'[1] = "backspace"
        => IF new_number THEN ObjectUnchanged
           ELSE /\ current_value'
                     = TruncQuot(current_value, IF hex_mode THEN 16 ELSE 10)
                /\ UNCHANGED <<new_number, stored_value, operation,
                               memory_value, last_operation, last_operand,
                               hex_mode>> ]_vars

(***************************************************************************)
(* C20.  Escape: with an operation pending it cancels the operation and    *)
(* leaves current_value, stored_value and new_number unchanged; with none  *)
(* pending it clears the entry (current_value 0, new_number true).  Hence  *)
(* from a pending operation the first Escape cancels the operator and the  *)
(* second clears the entry.                                                *)
(***************************************************************************)
C20_SmartEscape ==
    [][ last_event'[1] = "handle_escape"
        => /\ operation' = None
           /\ UNCHANGED <<stored_value, last_operation, last_operand, hex_mode>>
           /\ IF operation # None
              THEN UNCHANGED <<current_value, new_number>>
              ELSE current_value' = 0 /\ new_number' ]_vars

\* 5 + 3 typed, then Escape: the operator is cancelled, the 3 is still being
\* typed and the 5 is still stored
C20_Witness ==
    /\ InRun /\ last_event[1] = "handle_escape"
    /\ operation = None /\ op_label = <<>>
    /\ current_value = 3 /\ stored_value = 5 /\ ~new_number
    /\ clear_press_count = 1

(***************************************************************************)
(* C21.  copy_to_clipboard: with an operation pending the value copied is  *)
(* current_value if it is not 0 and stored_value otherwise; with none      *)
(* pending it is current_value.  The clipboard receives that value in the  *)
(* format of the mode, and nothing else of the calculator changes.         *)
(***************************************************************************)
C21_CopyValue ==
    [][ last_event'[1] = "copy_to_clipboard"
        => LET val_to_copy ==
                   IF operation # None
                   THEN IF current_value # 0 THEN current_value ELSE stored_value
                   ELSE current_value
           IN  /\ clipboard' = format_value(Self, val_to_copy)
               /\ UNCHANGED <<current_value, stored_value, operation,
                              memory_value, clear_press_count, last_clear_time,
                              last_operation, last_operand, hex_mode,
                              new_number, config, history, display,
                              alt_display, op_label, mode_label, hex_buttons>>
      ]_vars

\* 5 + 0 typed, then Copy: the entry is 0, so the clipboard holds the 5 that
\* is stored
C21_Witness ==
    /\ InRun /\ last_event[1] = "copy_to_clipboard"
    /\ operation = "add" /\ current_value = 0 /\ ~new_number
    /\ stored_value = 5 /\ clipboard = <<"5">>

(***************************************************************************)
(* C22.  memory_add() and memory_sub() set memory_value to                 *)
(* memory_value + current_value and memory_value - current_value wrapped   *)
(* to the signed word, and set new_number; memory_value stays within the   *)
(* signed range; current_value, stored_value and operation are unchanged.  *)
(* Stated for a memory_value and a current_value within the signed range.  *)
(***************************************************************************)
C22_MemoryAddSubWrapped ==
    [][ ( /\ last_event'[1] \in {"memory_add", "memory_sub"}
          /\ InS64(memory_value)
          /\ InS64(current_value) )
        => /\ memory_value'
                = WrapS64(IF last_event'[1] = "memory_add"
                          THEN memory_value + current_value
                          ELSE memory_value - current_value)
           /\ InS64(memory_value')
           /\ new_number'
           /\ UNCHANGED <<current_value, stored_value, operation>> ]_vars

(***************************************************************************)
(* C23.  memory_store() sets memory_value to current_value and new_number  *)
(* to true and changes nothing else: current_value, stored_value,          *)
(* operation, last_operation and last_operand are unchanged, and so are    *)
(* the mode, the press counter, the settings, the history, the clipboard   *)
(* and the display.                                                        *)
(***************************************************************************)
C23_MemoryStore ==
    [][ last_event'[1] = "memory_store"
        => /\ memory_value' = current_value
           /\ new_number'
           /\ UNCHANGED <<current_value, stored_value, operation,
                          last_operation, last_operand, hex_mode,
                          clear_press_count, last_clear_time, config, history,
                          clipboard, display, alt_display, op_label,
                          hex_buttons>> ]_vars

\* 5 + 3 typed, then MS: the memory holds 3, the next digit starts a new
\* entry, and 5 + is still pending on the entry 3
C23_Witness ==
    /\ InRun /\ last_event[1] = "memory_store"
    /\ memory_value = 3 /\ new_number
    /\ current_value = 3 /\ stored_value = 5 /\ operation = "add"
    /\ mode_label = <<"D", "E", "C", " ", "(", "M", ")">>

(***************************************************************************)
(* C24.  An operator pressed when no second operand has been typed (no     *)
(* operation pending, or new_number true) evaluates nothing and emits no   *)
(* history line: stored_value becomes current_value, operation the         *)
(* operator pressed and new_number true, and current_value, the repeat     *)
(* cache and the history are unchanged.  Hence an operator pressed right   *)
(* after another one replaces it.                                          *)
(***************************************************************************)
C24_OperatorWithoutOperand ==
    [][ ( /\ last_event'[1] = "operation_pressed"
          /\ (operation = None \/ new_number) )
        => /\ stored_value' = current_value
           /\ operation' = last_event'[2]
           /\ new_number'
           /\ emitted' = <<>>
           /\ UNCHANGED <<current_value, last_operation, last_operand,
                          memory_value, hex_mode, history, display>> ]_vars

\* 5 stored to the memory, 3 typed, +, then *: the pending operator is now *,
\* still on 3, and nothing was evaluated
C24_Witness ==
    /\ InRun /\ last_event = <<"operation_pressed", "mul">>
    /\ memory_value = 5 /\ current_value = 3 /\ stored_value = 3
    /\ operation = "mul" /\ op_label = <<"*">> /\ new_number
    /\ last_operation = None /\ history = <<>> /\ emitted = <<>>

(***************************************************************************)
(* C25.  One history line is emitted for each completed evaluation -- an   *)
(* equals on the pending or on the repeat path, or an operator pressed     *)
(* with a second operand typed -- and it reads "a op b = result" for the   *)
(* operands, the operator and the result that becomes current_value, in    *)
(* the format of the mode; it is the newest line of the panel.  Nothing    *)
(* else emits a line: not an evaluation that raised, not an equals with    *)
(* nothing to evaluate, not an operator without a second operand, and no   *)
(* other event.                                                            *)
(***************************************************************************)
\* an evaluation starts: equals with something pending or cached, or an
\* operator with a second operand typed
Evaluates(ev) ==
    \/ ev[1] = "equals_pressed" /\ (operation # None \/ last_operation # None)
    \/ ev[1] = "operation_pressed" /\ operation # None /\ ~new_number

C25_OneLinePerEvaluation ==
    [][ IF Evaluates(last_event')
        THEN LET pending == operation # None
                 a == IF pending THEN stored_value ELSE current_value
                 b == IF pending THEN current_value ELSE last_operand[1]
                 op == IF pending THEN operation ELSE last_operation
                 r == Calculate(op, a, b)
             IN  IF r = Raised
                 THEN emitted' = <<>> /\ history' = history
                 ELSE /\ emitted'
                           = << format_value(Self, a) \o <<" ">> \o OpSymbol(op)
                                  \o <<" ">> \o format_value(Self, b)
                                  \o <<" ", "=", " ">>
                                  \o format_value(Self, r[1]) >>
                      /\ current_value' = r[1]
                      /\ history' # <<>> /\ history'[1] = emitted'[1]
        ELSE /\ emitted' = <<>>
             /\ history' = IF last_event'[1] = "clear_history" THEN <<>>
                           ELSE history ]_vars

\* 3 + 5 typed, then *: the sum was evaluated and its line emitted, once
C25_Witness ==
    /\ InRun /\ last_event = <<"operation_pressed", "mul">>
    /\ emitted = << <<"3", " ", "+", " ", "5", " ", "=", " ", "8">> >>
    /\ history = emitted
    /\ current_value = 8 /\ operation = "mul"

(***************************************************************************)
(* C26.  In the state right after an equals that evaluated, after Clear,   *)
(* and after Escape (the one caller of clear_entry, which it calls only    *)
(* with no operation pending), operation is None; after the first two      *)
(* new_number is true.                                                     *)
(***************************************************************************)
C26_NoOperationAfterReset ==
    /\ Evaluated => (new_number /\ operation = None /\ op_label = <<>>)
    /\ last_event[1] = "clear_all"
          => (new_number /\ operation = None /\ op_label = <<>>)
    /\ last_event[1] = "handle_escape" => (operation = None /\ op_label = <<>>)

\* 5 + 3 typed, then =: the evaluation has set new_number and no operation
\* is pending
C26_Witness ==
    /\ InRun /\ Evaluated
    /\ emitted[1] = <<"5", " ", "+", " ", "3", " ", "=", " ", "8">>
    /\ stored_value = 5 /\ current_value = 8
    /\ new_number /\ operation = None

(***************************************************************************)
(* C27.  A hex digit A-F given to hex_digit_pressed while hex_mode is      *)
(* false is ignored: current_value, new_number and everything else of the  *)
(* calculator are unchanged.                                               *)
(***************************************************************************)
C27_HexDigitInDecimalIgnored ==
    [][ (last_event'[1] = "hex_digit_pressed" /\ ~hex_mode)
        => ObjectUnchanged /\ emitted' = <<>> ]_vars

\* 5 + 3 typed in decimal mode, then the digit F: 3 is still being typed
C27_Witness ==
    /\ InRun /\ last_event = <<"hex_digit_pressed", "F">>
    /\ ~hex_mode /\ ~hex_buttons
    /\ current_value = 3 /\ ~new_number /\ display = <<"3">>
    /\ stored_value = 5 /\ operation = "add"

(***************************************************************************)
(* C28.  Hexadecimal formatting: in hexadecimal mode format_value renders  *)
(* every value held as current_value or stored_value as the unsigned       *)
(* number value mod 2^64 (value + 2^64 when value < 0), a number of        *)
(* [0, 2^64 - 1], in upper-case digits after the prefix the settings ask   *)
(* for.                                                                    *)
(***************************************************************************)
C28_HexFormatUnsigned ==
    hex_mode =>
        \A value \in {current_value, stored_value} :
            format_value(Self, value)
                = (IF config.hex_prefix THEN <<"0", "x">> ELSE <<>>)
                      \o ToBase(value % TwoToWord, 16)

(***************************************************************************)
(* C29.  A paste whose text parses overwrites current_value with the       *)
(* integer parsed and sets new_number to false, and leaves stored_value,   *)
(* operation, memory_value, last_operation and last_operand unchanged, the *)
(* mode, the clipboard and the history as well; a digit pressed right      *)
(* after such a paste is appended to the value pasted.                     *)
(***************************************************************************)
C29_PasteOverwrites ==
    [][ /\ ( /\ last_event'[1] = "paste_from_clipboard"
             /\ ~PasteFails )
            => /\ current_value' = PasteValue(Self, Strip(clipboard))[1]
               /\ ~new_number'
               /\ display' = format_value(Self, current_value')
               /\ emitted' = <<>>
               /\ UNCHANGED <<stored_value, operation, memory_value,
                              last_operation, last_operand, hex_mode, config,
                              clipboard, history>>
        /\ ( /\ last_event[1] = "paste_from_clipboard"
             /\ ~new_number
             /\ last_event'[1] = "number_pressed" )
            => current_value'
                 = (current_value * (IF hex_mode THEN 16 ELSE 10)) + last_event'[2]
      ]_vars

\* the text "12" on the clipboard, Paste in decimal mode: the entry is 12,
\* and it is still being typed
C29_Witness ==
    /\ InRun /\ last_event[1] = "paste_from_clipboard"
    /\ clipboard = <<"1", "2">> /\ ~hex_mode
    /\ current_value = 12 /\ ~new_number /\ display = <<"1", "2">>
    /\ stored_value = 0 /\ operation = None

(***************************************************************************)
(* C30.  Shifts, for every a of the signed range and every count b with    *)
(* 0 <= b < 64: a >> b is floor(a / 2^b), so a negative a stays negative   *)
(* (or becomes -1), and a << b is a * 2^b wrapped to the signed word.      *)
(* Stated for equals on a pending shift.                                   *)
(***************************************************************************)
C30_Shifts ==
    [][ ( /\ last_event'[1] = "equals_pressed"
          /\ operation \in {"lshift", "rshift"}
          /\ InS64(stored_value)
          /\ 0 <= current_value /\ current_value < WordBits )
        => current_value'
             = IF operation = "rshift"
               THEN stored_value \div (2 ^ current_value)
               ELSE WrapS64(stored_value * (2 ^ current_value)) ]_vars

(***************************************************************************)
(* C31.  Chaining: an operator op2 pressed while op1 is pending and a      *)
(* second operand has been typed (new_number false) acts as equals and     *)
(* then selects op2: current_value becomes op1(stored_value,               *)
(* current_value), a result of the word's width as every result is said to *)
(* be, last_operation op1, last_operand the current_value before,          *)
(* operation op2 and new_number true, and one history line is emitted.     *)
(* Stated for a stored_value and a current_value within the signed range.  *)
(***************************************************************************)
C31_ChainingStep ==
    [][ ( /\ last_event'[1] = "operation_pressed"
          /\ operation # None /\ ~new_number
          /\ InS64(stored_value)
          /\ InS64(current_value) )
        => LET r == Calculate(operation, stored_value, current_value)
           IN  /\ r # Raised
               /\ current_value' = WrapS64(r[1])
               /\ last_operation' = operation
               /\ last_operand' = Some(current_value)
               /\ operation' = last_event'[2]
               /\ new_number'
               /\ Len(emitted') = 1 ]_vars

(***************************************************************************)
(* C32.  In every reachable state the label of the pending operator agrees *)
(* with operation: it is empty if and only if operation is None, and       *)
(* otherwise it is the symbol of the operation (+ - * / % & | ^ << >>).    *)
(***************************************************************************)
C32_OperatorLabel ==
    /\ (op_label = <<>>) <=> (operation = None)
    /\ operation # None
          => /\ operation \in Ops
             /\ op_label
                  = CASE operation = "add" -> <<"+">>
                      [] operation = "sub" -> <<"-">>
                      [] operation = "mul" -> <<"*">>
                      [] operation = "div" -> <<"/">>
                      [] operation = "mod" -> <<"%">>
                      [] operation = "and" -> <<"&">>
                      [] operation = "or" -> <<"|">>
                      [] operation = "xor" -> <<"^">>
                      [] operation = "lshift" -> <<"<", "<">>
                      [] operation = "rshift" -> <<">", ">">>

\* 5 + 3 typed, then >>: the sum is evaluated and the label shows >> for the
\* shift now pending on 8
C32_Witness ==
    /\ InRun /\ last_event = <<"operation_pressed", "rshift">>
    /\ operation = "rshift" /\ op_label = <<">", ">">>
    /\ current_value = 8 /\ last_operation = "add" /\ last_operand = Some(3)

(***************************************************************************)
(* C33.  After every event clear_press_count is 0, 1 or 2: the counter is  *)
(* reset to 0 when it reaches 3.  Hence a press of Clear or Escape that    *)
(* finds the counter at 0 (the first press, or the press after a wipe)     *)
(* leaves it at 1 and leaves memory_value as it is: the fourth quick press *)
(* does not wipe a value stored after the third.                           *)
(***************************************************************************)
C33_CounterBelowThree ==
    /\ [](clear_press_count \in 0..(ClearPresses - 1))
    /\ [][ (IsPress(last_event') /\ clear_press_count = 0)
           => clear_press_count' = 1 /\ memory_value' = memory_value ]_vars

\* three quick presses of Clear, 7 stored to the memory, then a fourth quick
\* press: the counter is at 1 and the memory still holds 7
C33_Witness ==
    /\ InRun /\ IsPress(last_event)
    /\ QuickPresses(press_log)
    /\ press_log[2][3] = 0 /\ press_log[3][3] = 1
    /\ clear_press_count = 1 /\ memory_value = 7

(***************************************************************************)
(* C34.  The counter of the memory-wipe gesture is shared by Escape and    *)
(* Clear and changed by them only: three presses of Escape or Clear, in    *)
(* any mix, each no more than 1.0 after the one before, leave memory_value *)
(* 0, whatever events come between the presses; and no other event changes *)
(* clear_press_count or last_clear_time.                                   *)
(***************************************************************************)
C34_SharedCounter ==
    [][ /\ IsPress(last_event')
            => (QuickPresses(press_log') => memory_value' = 0)
        /\ ~IsPress(last_event')
            => UNCHANGED <<clear_press_count, last_clear_time>> ]_vars

(***************************************************************************)
(* C34, amended.  The same for three presses counted from a press that     *)
(* started a count (one that left the counter at 1): the first press of    *)
(* all, a press more than 1.0 after the previous one, or the press after   *)
(* one that wiped the memory.                                              *)
(***************************************************************************)
C34_SharedCounterCounted ==
    [][ /\ IsPress(last_event')
            => ((QuickPresses(press_log') /\ CountedFromOne(press_log'))
                    => memory_value' = 0)
        /\ ~IsPress(last_event')
            => UNCHANGED <<clear_press_count, last_clear_time>> ]_vars

\* 5 stored to the memory, Clear, 3 typed, +, Escape, and a third quick
\* press: the memory is wiped although a digit and an operator came between
\* the presses
C34_Witness ==
    /\ InRun /\ IsPress(last_event)
    /\ QuickPresses(press_log) /\ CountedFromOne(press_log)
    /\ press_log[1][2] = "clear_all" /\ press_log[2][2] = "handle_escape"
    /\ stored_value = 3
    /\ memory_value = 0 /\ mode_label = <<"D", "E", "C">>

(***************************************************************************)
(* C35.  In every reachable state last_operation is None if and only if    *)
(* last_operand is None: the repeat cache is set as a pair and cleared as  *)
(* a pair, so equals on the repeat path always finds an operand.           *)
(***************************************************************************)
C35_RepeatCachePaired ==
    /\ (last_operation = None) <=> (last_operand = NoInt)
    /\ last_operation # None => (last_operation \in Ops /\ Len(last_operand) = 1)

\* an evaluation has filled the cache and left its line in the history, then
\* Clear: both halves of the cache are None again
C35_Witness ==
    /\ InRun /\ last_event[1] = "clear_all"
    /\ history # <<>>
    /\ last_operation = None /\ last_operand = NoInt

(***************************************************************************)
(* C36.  Repeated backspace ends the entry: from any state with new_number *)
(* false and any current_value, positive or negative, finitely many        *)
(* presses of backspace bring current_value to 0, where it stays.  Since   *)
(* backspace is a function of the state, that requires every press on a    *)
(* non-zero entry to change current_value (a value that backspace leaves   *)
(* as it is would be kept by every further press), and a press on 0 to     *)
(* leave 0.                                                                *)
(***************************************************************************)
C36_BackspaceReachesZero ==
    [][ (last_event'[1] = "backspace" /\ ~new_number)
        => IF current_value = 0 THEN current_value' = 0
           ELSE current_value' # current_value ]_vars

(***************************************************************************)
(* C37.  Equals pressed directly after an operator, no second operand      *)
(* typed, uses the value displayed as both operands: stored_value equals   *)
(* current_value, the result is operation(current_value, current_value), a *)
(* result of the word's width as every result is said to be, and           *)
(* last_operand becomes that value (5 + = gives 10, a further = 15).       *)
(* Stated for a current_value within the signed range.                     *)
(***************************************************************************)
C37_EqualsAfterOperator ==
    [][ ( /\ last_event[1] = "operation_pressed"
          /\ last_event'[1] = "equals_pressed"
          /\ InS64(current_value) )
        => LET r == Calculate(operation, current_value, current_value)
           IN  /\ new_number
               /\ stored_value = current_value
               /\ r # Raised
               /\ current_value' = WrapS64(r[1])
               /\ last_operand' = Some(current_value) ]_vars

(***************************************************************************)
(* C38.  A second operand that was typed is not dropped: with an operation *)
(* pending and a second operand typed, the next operator press evaluates   *)
(* the pending operation (one history line, current_value the result),     *)
(* also when MS, M+ or M- was pressed between the operand and the          *)
(* operator.  Stated for 5 op 3, a memory key, then an operator.           *)
(***************************************************************************)
C38_OperandNotDropped ==
    [][ \A op \in ChainOps, key \in MemoryKeys :
          ( /\ Holds(Run(Constructed, OperandThenMemory(5, op, 3, key)))
            /\ last_event'[1] = "operation_pressed" )
          => /\ Len(emitted') = 1
             /\ current_value' = Calculate(op, 5, 3)[1] ]_vars

====
